---------------------------- MODULE Spec2Model ----------------------------
(***************************************************************************)
(* Window-aware concurrent registration scheduler.                         *)
(*                                                                         *)
(*   monitoring/fee_strategy.py   AdaptiveFeeStrategy   (fee controller)   *)
(*   settings/block_monitor.py    EnhancedBlockMonitor  (block feed)       *)
(*   strategy/registration.py     RegistrationAssistant (orchestrator)     *)
(*                                                                         *)
(* Units.  Python floats are modelled in fixed point: multipliers and the  *)
(* congestion indicator in thousandths (0.5 is 500), a fee in thousandths  *)
(* of the cost unit (cost * multiplier), success_rate as the pair          *)
(* <<numerator, denominator>> (0.5 is <<1, 2>>), times in whole seconds.   *)
(***************************************************************************)
EXTENDS Integers, Sequences, FiniteSets

(***************************************************************************)
(* Program constants.                                                      *)
(***************************************************************************)
None == -1

BASE_PRIORITY_FEE == 500

MAX_PRIORITY_FEE == 2000

adapt_threshold == 5

RecentFeesCapacity == 10

TEMPO == 360

BLOCK_WINDOW == 10 .. 59

FreshnessHorizon == 10

\* multi_register: "elapsed.total_seconds() % 1800 < 10", "time.sleep(60)" at
\* the end of a sweep and "time.sleep(30)" after one that raised.
StatusPeriod == 1800

StatusSlack == 10

SweepSleep == 60

SweepErrorSleep == 30

NumSources == 5

(***************************************************************************)
(* Bounds of the model and the sets the inputs are drawn from.             *)
(***************************************************************************)
MaxAttempts == 6

MaxTimings == 3

MaxFeeCalls == 2

MaxWallets == 7

MaxLanes == 3

\* The calls of register_neuron one run makes, over all its lanes.
MaxRunAttempts == 2

\* The calls of compute_priority_fee the pricing lanes make between them.
MaxPriceCalls == 11

\* The largest tempo tried beside the configured one, with every non-empty
\* window inside it.
MaxTempo == 4

\* The heights 0 .. MaxHeight are asked for under every configuration.
MaxHeight == 9

\* The update_statistics(block_time=...) calls of a run of timings alone.
MaxTimingCalls == 8

\* (base_multiplier, max_multiplier) pairs with 0 < base <= max; the first
\* is the one RegistrationAssistant.__init__ passes.
FeeConfigs == { <<BASE_PRIORITY_FEE, MAX_PRIORITY_FEE>>, <<1000, 1500>>, <<2000, 2000>> }

\* The pairs the statistics are read under: the configured one and a
\* base_multiplier of 0.
StatsConfigs == { <<BASE_PRIORITY_FEE, MAX_PRIORITY_FEE>>, <<0, MAX_PRIORITY_FEE>> }

BaseCosts == {1, 3}

BlockTimes == {6, 9, 12, 13}

\* Block heights the data sources may report.
Heights == {0, 5, 370}

\* The api keys of config.py are set, so no source is skipped for want of one.
TAOSTATS_API_KEY == TRUE

SUBSCAN_API_KEY == TRUE

SuccessArgs == {"None", "True", "False"}

\* A run of multi_register: its work lists, lane counts, what get_burn_cost
\* and get_balance answer.
WorkLists == { << >>, <<1, 2>> }

ThreadCounts == {1, 2}

ChainCosts == {None, 2}

Balances == {1, 2}

\* (self.tempo, self.block_window): config.py's and every small one.
WindowConfigs ==
    {<<TEMPO, BLOCK_WINDOW>>} \cup
    UNION { { <<t, w>> : w \in (SUBSET (0 .. t - 1)) \ {{}} } : t \in 1 .. MaxTempo }

\* The arguments _get_window_info is called with.
QueryHeights == {None} \cup (0 .. MaxHeight) \cup {59, 365, 419, 725, 779}

\* int(delay): the passes of the worker's delay loop, one second each.
DelayChoices == {1, 2}

\* elapsed.total_seconds() at a sweep, in whole seconds.
ElapsedChoices == {0, 9, 10, 60, 1799, 1800, 1809, 1810, 3605}

\* The lanes that price concurrently.
PricingLanes == 0 .. 1

\* The lanes whose register_neuron calls get_current_block.
ReadingLanes == {0}

\* The wallets another process may register while the run goes on.
ExternalWallets == {1}

VARIABLES
    \* AdaptiveFeeStrategy
    base_multiplier, max_multiplier, attempts, successes, success_rate,
    block_congestion, recent_fees, last_fee,
    \* EnhancedBlockMonitor: the cached height, the whole seconds since
    \* last_updated (datetime.now() - self.last_updated, saturated at the
    \* freshness horizon: the code only compares it with 10 seconds), whether
    \* the polling thread is alive, and its stop event
    current_block, since_update, monitor_alive, monitor_stop,
    \* EnhancedBlockMonitor: the threads started on _monitor_blocks that have
    \* not ended
    monitor_threads,
    \* EnhancedBlockMonitor: self.tempo and self.block_window
    tempo, block_window,
    \* multi_register: its arguments, the lanes, the partition loop's index
    wallets, thread_count, use_priority_fee, wallet_groups, part_i,
    \* register_thread, per lane: where the worker is, the wallet it popped,
    \* how register_neuron ended, the values update_statistics has read
    lane_pc, cur, outcome, rd_attempts, rd_successes,
    \* register_thread, per lane: the passes its delay loop has left;
    \* register_neuron, per lane: whether this attempt has called send_telegram
    delay_left, notified,
    \* the shared stop event, the hotkeys registered on the chain, the
    \* wallets for which register_neuron has returned True
    stop_event, registered, succeeded,
    \* the number of register_neuron calls the run has made
    started,
    \* the supervisor: where it is, registered_wallets, the summary it logged
    sup_pc, registered_wallets, summary,
    \* the most recent call made on a component and what it returned
    ret,
    \* number of update_statistics(block_time=...) calls made so far
    timings,
    \* the update_statistics(success=...) calls begun so far, and those of
    \* them made with success=True
    calls,
    \* get_current_block, per calling lane: the height its return statement
    \* has read for the first element of the pair
    rd_block

feeVars == <<base_multiplier, max_multiplier, attempts, successes, success_rate,
             block_congestion, recent_fees, last_fee>>

feedVars == <<current_block, since_update, monitor_alive, monitor_stop, monitor_threads>>

windowVars == <<tempo, block_window>>

laneVars == <<lane_pc, cur, outcome, rd_attempts, rd_successes, delay_left, notified>>

runVars == <<wallets, thread_count, use_priority_fee, wallet_groups, part_i,
             laneVars, stop_event, registered, succeeded, started,
             sup_pc, registered_wallets, summary>>

vars == <<feeVars, feedVars, windowVars, runVars, ret, timings, calls, rd_block>>

Min(a, b) == IF a < b THEN a ELSE b

Max(a, b) == IF a > b THEN a ELSE b

(***************************************************************************)
(* AdaptiveFeeStrategy                                                     *)
(***************************************************************************)
\* __init__: the statistics of a freshly constructed strategy.
FeeInit(cfg) ==
    /\ base_multiplier = cfg[1]
    /\ max_multiplier = cfg[2]
    /\ attempts = 0
    /\ successes = 0
    /\ success_rate = <<1, 2>>
    /\ block_congestion = 0
    /\ recent_fees = << >>
    /\ last_fee = None

\* success_rate < 0.2 and success_rate < 0.5 on the pair <<num, den>>.
RateBelowFifth(r) == 5 * r[1] < r[2]

RateBelowHalf(r) == 2 * r[1] < r[2]

\* update_statistics, the block_time branch: the new congestion value.
CongestionAfter(c, block_time) ==
    IF block_time > 12 THEN Min(1000, c + 100)
    ELSE IF block_time > 9 THEN Min(800, c + 50)
    ELSE IF block_time > 6 THEN Min(500, c + 20)
    ELSE Max(0, c - 50)

\* compute_priority_fee: the multiplier of the three success-rate tiers.
TierModifier ==
    IF RateBelowFifth(success_rate)
    THEN Min(max_multiplier, max_multiplier - 500 + (block_congestion * 5) \div 10)
    ELSE IF RateBelowHalf(success_rate)
    THEN Min(max_multiplier - 200, base_multiplier + 500 + (block_congestion * 3) \div 10)
    ELSE base_multiplier + (block_congestion * 2) \div 10

\* Mutant: the tiers apply from the threshold itself.
AdaptedAtThreshold == attempts >= adapt_threshold

\* compute_priority_fee: whether the tiers apply.
Adapted == attempts > adapt_threshold

\* compute_priority_fee: the fee it returns.
Fee(base_cost) ==
    IF Adapted THEN base_cost * TierModifier ELSE base_cost * base_multiplier

\* compute_priority_fee: "if len(self.recent_fees) > 10: self.recent_fees.pop(0)"
FeesTrimmed(fees) ==
    IF Len(fees) > RecentFeesCapacity THEN Tail(fees) ELSE fees

\* compute_priority_fee: recent_fees after the append and the eviction.
FeesAfter(fees, fee) == FeesTrimmed(Append(fees, fee))

RECURSIVE SeqSum(_)
SeqSum(q) == IF q = << >> THEN 0 ELSE Head(q) + SeqSum(Tail(q))

\* Python's truth value of last_fee: None and 0.0 are false.
TruthyFee(fee) == fee # None /\ fee # 0

\* Mutant: the statistics of an empty history report the tier's multiplier.
EmptyStatisticsTiered ==
    [error |-> "None", current_multiplier |-> TierModifier,
     success_rate |-> success_rate, congestion |-> block_congestion,
     avg_fee |-> <<0, 1>>, min_fee |-> 0, max_fee |-> 0]

\* get_fee_statistics, "if not self.recent_fees: return {...}".
EmptyStatistics ==
    [error |-> "None", current_multiplier |-> base_multiplier,
     success_rate |-> success_rate, congestion |-> block_congestion,
     avg_fee |-> <<0, 1>>, min_fee |-> 0, max_fee |-> 0]

\* get_fee_statistics, "self.last_fee / (self.last_fee / self.base_multiplier)
\* if self.last_fee else self.base_multiplier": whether the division by
\* base_multiplier raises ZeroDivisionError.
MultiplierRaises == TruthyFee(last_fee) /\ base_multiplier = 0

\* The same expression when it does not raise, in exact arithmetic (a float's
\* rounding is not modelled): x / (x / b) = (x * b) / x.
CurrentMultiplier ==
    IF TruthyFee(last_fee)
    THEN (last_fee * base_multiplier) \div last_fee
    ELSE base_multiplier

\* What a call that raised leaves its caller with.
RaisedStatistics(error) ==
    [error |-> error, current_multiplier |-> None,
     success_rate |-> success_rate, congestion |-> block_congestion,
     avg_fee |-> <<0, 1>>, min_fee |-> None, max_fee |-> None]

\* get_fee_statistics(): avg_fee is kept as the pair <<sum, len>>.
get_fee_statistics ==
    IF recent_fees = << >> THEN EmptyStatistics
    ELSE IF MultiplierRaises THEN RaisedStatistics("ZeroDivisionError")
    ELSE [error |-> "None", current_multiplier |-> CurrentMultiplier,
          success_rate |-> success_rate, congestion |-> block_congestion,
          avg_fee |-> <<SeqSum(recent_fees), Len(recent_fees)>>,
          min_fee |-> CHOOSE x \in {recent_fees[i] : i \in DOMAIN recent_fees} :
                          \A i \in DOMAIN recent_fees : x <= recent_fees[i],
          max_fee |-> CHOOSE x \in {recent_fees[i] : i \in DOMAIN recent_fees} :
                          \A i \in DOMAIN recent_fees : x >= recent_fees[i]]

\* update_statistics(success=..., block_time=...) called by a single caller.
update_statistics(success, block_time) ==
    /\ success # "None" \/ block_time # None
    /\ success # "None" => attempts < MaxAttempts
    /\ block_time # None => timings < MaxTimings
    /\ IF success # "None"
       THEN /\ attempts' = attempts + 1
            /\ successes' = IF success = "True" THEN successes + 1 ELSE successes
            /\ success_rate' = <<successes', attempts'>>
            /\ calls' = <<calls[1] + 1, IF success = "True" THEN calls[2] + 1 ELSE calls[2]>>
       ELSE UNCHANGED <<attempts, successes, success_rate, calls>>
    /\ IF block_time # None
       THEN /\ block_congestion' = CongestionAfter(block_congestion, block_time)
            /\ timings' = timings + 1
       ELSE UNCHANGED <<block_congestion, timings>>
    /\ ret' = [op |-> "update_statistics", arg |-> None, val |-> None]
    /\ UNCHANGED <<base_multiplier, max_multiplier, recent_fees, last_fee>>
    /\ UNCHANGED <<feedVars, windowVars, rd_block, runVars>>

\* compute_priority_fee(base_cost) called by a single caller.
compute_priority_fee(base_cost) ==
    /\ Len(recent_fees) < MaxFeeCalls
    /\ last_fee' = Fee(base_cost)
    /\ recent_fees' = FeesAfter(recent_fees, Fee(base_cost))
    /\ ret' = [op |-> "compute_priority_fee", arg |-> base_cost, val |-> Fee(base_cost)]
    /\ UNCHANGED <<base_multiplier, max_multiplier, attempts, successes,
                   success_rate, block_congestion, timings, windowVars, rd_block, calls>>
    /\ UNCHANGED <<feedVars, runVars>>

\* get_fee_statistics() called by a single caller.
FeeStatistics ==
    /\ ret' = [op |-> "get_fee_statistics", arg |-> None, val |-> get_fee_statistics]
    /\ UNCHANGED <<feeVars, feedVars, runVars, timings, windowVars, rd_block, calls>>

RetInit == ret = [op |-> "init", arg |-> None, val |-> None]

\* RegistrationAssistant before multi_register is called.
RunInit ==
    /\ wallets = << >>
    /\ thread_count = 0
    /\ use_priority_fee = TRUE
    /\ wallet_groups = << >>
    /\ part_i = 0
    /\ lane_pc = << >>
    /\ cur = << >>
    /\ outcome = << >>
    /\ rd_attempts = << >>
    /\ rd_successes = << >>
    /\ delay_left = << >>
    /\ notified = << >>
    /\ rd_block = << >>
    /\ stop_event = FALSE
    /\ registered = {}
    /\ succeeded = {}
    /\ started = 0
    /\ sup_pc = "idle"
    /\ registered_wallets = << >>
    /\ summary = << >>

(***************************************************************************)
(* EnhancedBlockMonitor                                                    *)
(***************************************************************************)
\* __init__: no height cached, last_updated = datetime.min, no thread.
FeedInitWith(t, w) ==
    /\ current_block = None
    /\ since_update = FreshnessHorizon
    /\ monitor_alive = FALSE
    /\ monitor_stop = FALSE
    /\ monitor_threads = 0
    /\ tempo = t
    /\ block_window = w

FeedInit == FeedInitWith(TEMPO, BLOCK_WINDOW)

SetMax(S) == CHOOSE x \in S : \A y \in S : y <= x

SetMin(S) == CHOOSE x \in S : \A y \in S : x <= y

\* _get_window_info: block_in_tempo = block % self.tempo
BlockInTempo(block) == block % tempo

\* Mutant: the window taken as the span between its least and largest offset.
InWindowSpan(block_in_tempo) ==
    SetMin(block_window) <= block_in_tempo /\ block_in_tempo <= SetMax(block_window)

\* _get_window_info: in_window = block_in_tempo in self.block_window
InWindow(block_in_tempo) == block_in_tempo \in block_window

\* Mutant: no wrap at the last offset of the window.
BlocksLeftNoWrap(block_in_tempo) == SetMax(block_window) - block_in_tempo

\* _get_window_info, the in-window branch: blocks_left with its wrap.
BlocksLeft(block_in_tempo) ==
    IF SetMax(block_window) - block_in_tempo <= 0
    THEN SetMax(block_window) - SetMin(block_window) + tempo
    ELSE SetMax(block_window) - block_in_tempo

\* Mutant: an offset already passed is not carried into the next period.
NextWindowBlocksSamePeriod(block_in_tempo) ==
    { IF w > block_in_tempo THEN w - block_in_tempo ELSE block_in_tempo - w
        : w \in block_window }

\* _get_window_info, the not-in-window branch: the distance to each offset.
NextWindowBlocks(block_in_tempo) ==
    { IF w > block_in_tempo THEN w - block_in_tempo ELSE tempo - block_in_tempo + w
        : w \in block_window }

\* _get_window_info(block)
_get_window_info(block) ==
    IF block = None
    THEN [in_window |-> FALSE, block_in_tempo |-> None, blocks_left |-> None,
          next_window |-> None, status |-> <<"Unknown", None>>]
    ELSE LET block_in_tempo == BlockInTempo(block)
             in_window == InWindow(block_in_tempo)
             blocks_left == BlocksLeft(block_in_tempo)
             next_window == SetMin(NextWindowBlocks(block_in_tempo))
         IN IF in_window
            THEN [in_window |-> TRUE, block_in_tempo |-> block_in_tempo,
                  blocks_left |-> blocks_left, next_window |-> None,
                  status |-> <<"WINDOW ACTIVE", blocks_left>>]
            ELSE [in_window |-> FALSE, block_in_tempo |-> block_in_tempo,
                  blocks_left |-> None, next_window |-> next_window,
                  status |-> <<"Next window in", next_window>>]

\* Python's None where a window_info dict is expected.
NoneInfo ==
    [in_window |-> FALSE, block_in_tempo |-> None, blocks_left |-> None,
     next_window |-> None, status |-> <<"None", None>>]

\* Mutant: an observation exactly as old as the horizon still counts.
FreshAtHorizon(age) == age <= FreshnessHorizon

\* get_current_block: whether the cached observation is still fresh.
Fresh(age) == age < FreshnessHorizon

\* get_current_block() -> (block, window_info) or (None, None)
get_current_block ==
    IF current_block # None /\ Fresh(since_update)
    THEN <<current_block, _get_window_info(current_block)>>
    ELSE <<None, NoneInfo>>

\* A height the sources disagree on: one other than h.
OtherHeight(h) == CHOOSE x \in Heights : x # h

\* What the five sources answer in one tick: None for a failed request.  The
\* sources before the k-th fail, the k-th answers h, the later ones (which
\* the loop does not reach) would answer another height.
ProbeResults ==
    { [i \in 1 .. NumSources |->
          IF i < k THEN None ELSE IF i = k THEN h ELSE OtherHeight(h)]
        : k \in 1 .. NumSources + 1, h \in Heights }

\* _check_via_taostats and _check_via_subscan return False without a key.
HasKey(i) ==
    IF i = 1 THEN TAOSTATS_API_KEY ELSE IF i = 2 THEN SUBSCAN_API_KEY ELSE TRUE

\* _check_via_*: whether the i-th source's probe succeeds.
ProbeSucceeds(i, res) == HasKey(i) /\ res[i] # None

\* Mutant: the loop does not break, the last source that succeeds wins.
RECURSIVE LastSuccess(_, _)
LastSuccess(i, res) ==
    IF i > NumSources THEN 0
    ELSE IF LastSuccess(i + 1, res) # 0 THEN LastSuccess(i + 1, res)
    ELSE IF res[i] # None THEN i
    ELSE 0

\* _monitor_blocks, "for method in methods: if method(): break": the index of
\* the probe that ends the loop, 0 when none succeeds.
RECURSIVE FirstSuccess(_, _)
FirstSuccess(i, res) ==
    IF i > NumSources THEN 0
    ELSE IF ProbeSucceeds(i, res) THEN i
    ELSE FirstSuccess(i + 1, res)

\* The cache after one tick: each probe that ran and succeeded stored its
\* height and refreshed last_updated.
BlockAfterTick(res) ==
    IF FirstSuccess(1, res) = 0 THEN current_block ELSE res[FirstSuccess(1, res)]

AgeAfterTick(res) ==
    IF FirstSuccess(1, res) = 0 THEN since_update ELSE 0

\* Mutant: start_monitoring without its "already running" test.
StartMonitoringUnguarded ==
    /\ monitor_stop' = FALSE
    /\ monitor_alive' = TRUE
    /\ monitor_threads' = monitor_threads + 1

\* start_monitoring: "if self.monitor_thread and self.monitor_thread.is_alive():
\* return", else the stop event is cleared and a new thread started.
StartMonitoring ==
    IF monitor_alive
    THEN UNCHANGED <<monitor_alive, monitor_stop, monitor_threads>>
    ELSE /\ monitor_stop' = FALSE
         /\ monitor_alive' = TRUE
         /\ monitor_threads' = monitor_threads + 1

\* Mutant: stop_monitoring is not called.
StopMonitoringSkipped == UNCHANGED <<monitor_stop, monitor_alive, monitor_threads>>

\* stop_monitoring: the join gives up after 2 seconds, the thread may live on.
StopMonitoring ==
    /\ monitor_stop' = TRUE
    /\ UNCHANGED <<monitor_alive, monitor_threads>>

\* _monitor_blocks: one pass of the polling loop.
MonitorTick(res) ==
    /\ monitor_alive /\ ~monitor_stop
    /\ current_block' = BlockAfterTick(res)
    /\ since_update' = AgeAfterTick(res)
    /\ UNCHANGED <<monitor_alive, monitor_stop, monitor_threads>>

\* _monitor_blocks: the loop condition fails and the thread ends.
MonitorExit ==
    /\ monitor_alive /\ monitor_stop
    /\ monitor_alive' = FALSE
    /\ monitor_threads' = monitor_threads - 1
    /\ UNCHANGED <<current_block, since_update, monitor_stop>>

\* One second passes.
AdvanceClock ==
    /\ since_update' = Min(FreshnessHorizon, since_update + 1)
    /\ UNCHANGED <<current_block, monitor_alive, monitor_stop, monitor_threads>>

FeedStart ==
    /\ StartMonitoring
    /\ ret' = [op |-> "start_monitoring", arg |-> None, val |-> None]
    /\ UNCHANGED <<current_block, since_update, feeVars, runVars, timings, windowVars, rd_block, calls>>

FeedStop ==
    /\ StopMonitoring
    /\ ret' = [op |-> "stop_monitoring", arg |-> None, val |-> None]
    /\ UNCHANGED <<current_block, since_update, feeVars, runVars, timings, windowVars, rd_block, calls>>

FeedTick ==
    \E res \in ProbeResults :
        /\ MonitorTick(res)
        /\ ret' = [op |-> "_monitor_blocks", arg |-> res, val |-> FirstSuccess(1, res)]
        /\ UNCHANGED <<feeVars, runVars, timings, windowVars, rd_block, calls>>

FeedExit ==
    /\ MonitorExit
    /\ ret' = [op |-> "_monitor_blocks exit", arg |-> None, val |-> None]
    /\ UNCHANGED <<feeVars, runVars, timings, windowVars, rd_block, calls>>

FeedSleep ==
    /\ AdvanceClock
    /\ ret' = [op |-> "sleep", arg |-> None, val |-> None]
    /\ UNCHANGED <<feeVars, runVars, timings, windowVars, rd_block, calls>>

FeedGetCurrentBlock ==
    /\ ret' = [op |-> "get_current_block", arg |-> None, val |-> get_current_block]
    /\ UNCHANGED <<feedVars, feeVars, runVars, timings, windowVars, rd_block, calls>>

InitFeed ==
    /\ FeeInit(<<BASE_PRIORITY_FEE, MAX_PRIORITY_FEE>>)
    /\ FeedInit
    /\ RunInit
    /\ RetInit
    /\ timings = 0
    /\ calls = <<0, 0>>

NextFeed ==
    \/ FeedStart
    \/ FeedStop
    \/ FeedTick
    \/ FeedExit
    \/ FeedSleep
    \/ FeedGetCurrentBlock

\* The block feed driven by its thread, the clock and arbitrary callers.
SpecFeed == InitFeed /\ [][NextFeed]_vars

\* A direct call of _get_window_info(block).
GetWindowInfo(block) ==
    /\ ret' = [op |-> "_get_window_info", arg |-> block, val |-> _get_window_info(block)]
    /\ UNCHANGED <<feedVars, feeVars, runVars, timings, windowVars, rd_block, calls>>

InitWindow ==
    /\ FeeInit(<<BASE_PRIORITY_FEE, MAX_PRIORITY_FEE>>)
    /\ \E c \in WindowConfigs : FeedInitWith(c[1], c[2])
    /\ RunInit
    /\ RetInit
    /\ timings = 0
    /\ calls = <<0, 0>>

NextWindow == \E block \in QueryHeights : GetWindowInfo(block)

\* _get_window_info called with arbitrary heights under an arbitrary tempo and
\* window.
SpecWindow == InitWindow /\ [][NextWindow]_vars

(***************************************************************************)
(* get_current_block called by a lane while the polling thread runs,       *)
(* read by read: no lock guards current_block and last_updated             *)
(***************************************************************************)
\* The lane threads are started.
ReadSpawn ==
    /\ lane_pc = << >>
    /\ lane_pc' = [l \in ReadingLanes |-> "loop"]
    /\ rd_block' = [l \in ReadingLanes |-> None]
    /\ ret' = [op |-> "start", arg |-> None, val |-> None]
    /\ UNCHANGED <<wallets, thread_count, use_priority_fee, wallet_groups, part_i,
                   cur, outcome, rd_attempts, rd_successes, delay_left, notified,
                   stop_event, registered, succeeded, started, sup_pc,
                   registered_wallets, summary>>
    /\ UNCHANGED <<feeVars, feedVars, timings, windowVars, calls>>

\* get_current_block, "if self.current_block is not None and datetime.now() -
\* self.last_updated < timedelta(seconds=10)": the call goes on to its first
\* return statement or returns (None, None).
GcbCheck(l) ==
    /\ lane_pc # << >> /\ lane_pc[l] = "loop"
    /\ IF current_block # None /\ Fresh(since_update)
       THEN /\ lane_pc' = [lane_pc EXCEPT ![l] = "gcb_first"]
            /\ UNCHANGED ret
       ELSE /\ ret' = [op |-> "get_current_block", arg |-> None,
                       val |-> <<None, NoneInfo>>]
            /\ UNCHANGED lane_pc
    /\ UNCHANGED <<wallets, thread_count, use_priority_fee, wallet_groups, part_i,
                   cur, outcome, rd_attempts, rd_successes, delay_left, notified,
                   stop_event, registered, succeeded, started, sup_pc,
                   registered_wallets, summary>>
    /\ UNCHANGED <<feeVars, feedVars, timings, windowVars, calls, rd_block>>

\* "return self.current_block, ...": the first element of the pair is read.
GcbReadFirst(l) ==
    /\ lane_pc # << >> /\ lane_pc[l] = "gcb_first"
    /\ rd_block' = [rd_block EXCEPT ![l] = current_block]
    /\ lane_pc' = [lane_pc EXCEPT ![l] = "gcb_second"]
    /\ UNCHANGED <<wallets, thread_count, use_priority_fee, wallet_groups, part_i,
                   cur, outcome, rd_attempts, rd_successes, delay_left, notified,
                   stop_event, registered, succeeded, started, sup_pc,
                   registered_wallets, summary>>
    /\ UNCHANGED <<feeVars, feedVars, ret, timings, windowVars, calls>>

\* "..., self._get_window_info(self.current_block)": current_block is read
\* again for the argument, and the pair is returned.
GcbReturn(l) ==
    /\ lane_pc # << >> /\ lane_pc[l] = "gcb_second"
    /\ ret' = [op |-> "get_current_block", arg |-> None,
               val |-> <<rd_block[l], _get_window_info(current_block)>>]
    /\ rd_block' = [rd_block EXCEPT ![l] = None]
    /\ lane_pc' = [lane_pc EXCEPT ![l] = "loop"]
    /\ UNCHANGED <<wallets, thread_count, use_priority_fee, wallet_groups, part_i,
                   cur, outcome, rd_attempts, rd_successes, delay_left, notified,
                   stop_event, registered, succeeded, started, sup_pc,
                   registered_wallets, summary>>
    /\ UNCHANGED <<feeVars, feedVars, timings, windowVars, calls>>

NextRead ==
    \/ ReadSpawn
    \/ FeedStart
    \/ FeedStop
    \/ FeedTick
    \/ FeedExit
    \/ FeedSleep
    \/ \E l \in ReadingLanes : GcbCheck(l)
    \/ \E l \in ReadingLanes : GcbReadFirst(l)
    \/ \E l \in ReadingLanes : GcbReturn(l)

\* A lane reads the block feed while the polling thread writes it.
SpecRead == InitFeed /\ [][NextRead]_vars

(***************************************************************************)
(* compute_priority_fee called by several lanes, statement by statement    *)
(***************************************************************************)
\* multi_register starts the lane threads.
PriceSpawn ==
    /\ lane_pc = << >>
    /\ lane_pc' = [l \in PricingLanes |-> "loop"]
    /\ ret' = [op |-> "start", arg |-> None, val |-> None]
    /\ UNCHANGED <<wallets, thread_count, use_priority_fee, wallet_groups, part_i,
                   cur, outcome, rd_attempts, rd_successes, delay_left, notified, stop_event, registered,
                   succeeded, started, sup_pc, registered_wallets, summary>>
    /\ UNCHANGED <<feeVars, feedVars, timings, windowVars, rd_block, calls>>

\* compute_priority_fee up to "self.recent_fees.append(fee)".
PriceAppend(l, base_cost) ==
    /\ lane_pc # << >> /\ lane_pc[l] = "loop"
    /\ started < MaxPriceCalls
    /\ started' = started + 1
    /\ last_fee' = Fee(base_cost)
    /\ recent_fees' = Append(recent_fees, Fee(base_cost))
    /\ lane_pc' = [lane_pc EXCEPT ![l] = "trim"]
    /\ ret' = [op |-> "compute_priority_fee", arg |-> base_cost, val |-> Fee(base_cost)]
    /\ UNCHANGED <<base_multiplier, max_multiplier, attempts, successes,
                   success_rate, block_congestion>>
    /\ UNCHANGED <<wallets, thread_count, use_priority_fee, wallet_groups, part_i,
                   cur, outcome, rd_attempts, rd_successes, delay_left, notified, stop_event, registered,
                   succeeded, sup_pc, registered_wallets, summary>>
    /\ UNCHANGED <<feedVars, timings, windowVars, rd_block, calls>>

\* compute_priority_fee from "if len(self.recent_fees) > 10" to its return.
PriceTrim(l) ==
    /\ lane_pc # << >> /\ lane_pc[l] = "trim"
    /\ recent_fees' = FeesTrimmed(recent_fees)
    /\ lane_pc' = [lane_pc EXCEPT ![l] = "loop"]
    /\ ret' = [op |-> "compute_priority_fee return", arg |-> l, val |-> None]
    /\ UNCHANGED <<base_multiplier, max_multiplier, attempts, successes,
                   success_rate, block_congestion, last_fee>>
    /\ UNCHANGED <<wallets, thread_count, use_priority_fee, wallet_groups, part_i,
                   cur, outcome, rd_attempts, rd_successes, delay_left, notified, stop_event, registered,
                   succeeded, started, sup_pc, registered_wallets, summary>>
    /\ UNCHANGED <<feedVars, timings, windowVars, rd_block, calls>>

\* The supervisor's status report calls get_fee_statistics().
GetFeeStatistics ==
    /\ lane_pc # << >>
    /\ ret' = [op |-> "get_fee_statistics", arg |-> None, val |-> get_fee_statistics]
    /\ UNCHANGED <<feeVars, feedVars, runVars, timings, windowVars, rd_block, calls>>

InitPrice ==
    /\ FeeInit(<<BASE_PRIORITY_FEE, MAX_PRIORITY_FEE>>)
    /\ FeedInit
    /\ RunInit
    /\ RetInit
    /\ timings = 0
    /\ calls = <<0, 0>>

NextPrice ==
    \/ PriceSpawn
    \/ \E l \in PricingLanes, c \in BaseCosts : PriceAppend(l, c)
    \/ \E l \in PricingLanes : PriceTrim(l)
    \/ GetFeeStatistics

\* The lanes price concurrently while the supervisor reads the statistics.
SpecPrice == InitPrice /\ [][NextPrice]_vars

InitStats ==
    /\ \E cfg \in StatsConfigs : FeeInit(cfg)
    /\ FeedInit
    /\ RunInit
    /\ RetInit
    /\ timings = 0
    /\ calls = <<0, 0>>

NextStats ==
    \/ \E s \in SuccessArgs, bt \in BlockTimes \cup {None} : update_statistics(s, bt)
    \/ \E c \in BaseCosts : compute_priority_fee(c)
    \/ FeeStatistics

\* The fee controller with a caller that reads its statistics between calls.
SpecStats == InitStats /\ [][NextStats]_vars

\* update_statistics(block_time=...), success left at None: the call returns
\* nothing, ret keeps its argument and the congestion it found.
RecordTiming(block_time) ==
    /\ timings < MaxTimingCalls
    /\ block_congestion' = CongestionAfter(block_congestion, block_time)
    /\ timings' = timings + 1
    /\ ret' = [op |-> "update_statistics(block_time)", arg |-> block_time,
               val |-> block_congestion]
    /\ UNCHANGED <<base_multiplier, max_multiplier, attempts, successes,
                   success_rate, recent_fees, last_fee>>
    /\ UNCHANGED <<feedVars, windowVars, rd_block, runVars, calls>>

InitCongestion ==
    /\ FeeInit(<<BASE_PRIORITY_FEE, MAX_PRIORITY_FEE>>)
    /\ FeedInit
    /\ RunInit
    /\ RetInit
    /\ timings = 0
    /\ calls = <<0, 0>>

NextCongestion ==
    \/ \E bt \in BlockTimes : RecordTiming(bt)
    \/ FeeStatistics

\* The congestion indicator under an arbitrary sequence of block timings.
SpecCongestion == InitCongestion /\ [][NextCongestion]_vars

InitFee ==
    /\ \E cfg \in FeeConfigs : FeeInit(cfg)
    /\ FeedInit
    /\ RunInit
    /\ RetInit
    /\ timings = 0
    /\ calls = <<0, 0>>

NextFee ==
    \/ \E s \in SuccessArgs, bt \in BlockTimes \cup {None} : update_statistics(s, bt)
    \/ \E c \in BaseCosts : compute_priority_fee(c)

\* The fee controller driven by an arbitrary sequence of calls.
SpecFee == InitFee /\ [][NextFee]_vars

(***************************************************************************)
(* RegistrationAssistant.multi_register: the round-robin partition         *)
(***************************************************************************)
\* "for i in range(thread_count): wallet_groups.append([])"
EmptyGroups(n) == [g \in 0 .. n - 1 |-> << >>]

\* Mutant: the index taken from a count that starts at 1.
GroupIndexFromOne(i, n) == (i + 1) % n

\* "wallet_groups[i % thread_count].append(wallet)", i counted from 0.
GroupIndex(i, n) == i % n

AddToGroup(groups, i, wallet, n) ==
    [groups EXCEPT ![GroupIndex(i, n)] = Append(@, wallet)]

\* "for i, wallet in enumerate(wallets)" from index i on.
RECURSIVE PartitionFrom(_, _, _, _)
PartitionFrom(groups, ws, i, n) ==
    IF i >= Len(ws) THEN groups
    ELSE PartitionFrom(AddToGroup(groups, i, ws[i + 1], n), ws, i + 1, n)

Partition(ws, n) == PartitionFrom(EmptyGroups(n), ws, 0, n)

\* The work list of k distinct credentials.
WorkListOf(k) == [j \in 1 .. k |-> j]

InitPart ==
    /\ FeeInit(<<BASE_PRIORITY_FEE, MAX_PRIORITY_FEE>>)
    /\ FeedInit
    /\ RetInit
    /\ timings = 0
    /\ calls = <<0, 0>>
    /\ \E k \in 0 .. MaxWallets : wallets = WorkListOf(k)
    /\ \E n \in 1 .. MaxLanes : thread_count = n /\ wallet_groups = EmptyGroups(n)
    /\ use_priority_fee = TRUE
    /\ part_i = 0
    /\ lane_pc = << >>
    /\ cur = << >>
    /\ outcome = << >>
    /\ rd_attempts = << >>
    /\ rd_successes = << >>
    /\ delay_left = << >>
    /\ notified = << >>
    /\ rd_block = << >>
    /\ stop_event = FALSE
    /\ registered = {}
    /\ succeeded = {}
    /\ started = 0
    /\ sup_pc = "partition"
    /\ registered_wallets = << >>
    /\ summary = << >>

\* One pass of the enumerate loop.
PartitionStep ==
    /\ sup_pc = "partition"
    /\ part_i < Len(wallets)
    /\ wallet_groups' = AddToGroup(wallet_groups, part_i, wallets[part_i + 1], thread_count)
    /\ part_i' = part_i + 1
    /\ UNCHANGED <<wallets, thread_count, use_priority_fee, laneVars, stop_event,
                   registered, succeeded, started, sup_pc, registered_wallets, summary>>
    /\ UNCHANGED <<feeVars, feedVars, ret, timings, windowVars, rd_block, calls>>

NextPart == PartitionStep

\* The partition loop of multi_register on every work list and lane count.
SpecPart == InitPart /\ [][NextPart]_vars

\* The sequence s as the set of its elements.
Range(s) == { s[j] : j \in 1 .. Len(s) }

\* The lanes that hold wallet w, and how often lane g holds it.
Occurrences(s, w) == Cardinality({ j \in 1 .. Len(s) : s[j] = w })

\* C6: once the partition loop has ended, the i-th credential (counted from
\* 0) is in lane i mod laneCount, every credential occurs exactly once over
\* all lanes, and two lane sizes differ by at most 1.
RoundRobinPartition ==
    part_i = Len(wallets) /\ sup_pc = "partition" =>
        /\ \A i \in 0 .. Len(wallets) - 1 :
               /\ Occurrences(wallet_groups[i % thread_count], wallets[i + 1]) = 1
               /\ \A g \in 0 .. thread_count - 1 :
                      g # i % thread_count =>
                          Occurrences(wallet_groups[g], wallets[i + 1]) = 0
        /\ \A g, h \in 0 .. thread_count - 1 :
               Len(wallet_groups[g]) - Len(wallet_groups[h]) <= 1
        /\ wallet_groups = Partition(wallets, thread_count)

\* C6 witness: seven credentials dealt over three lanes.
SevenOverThree ==
    /\ sup_pc = "partition"
    /\ Len(wallets) = 7 /\ thread_count = 3 /\ part_i = 7
    /\ Len(wallet_groups[0]) = 3 /\ Len(wallet_groups[1]) = 2
    /\ Len(wallet_groups[2]) = 2

(***************************************************************************)
(* RegistrationAssistant: register_neuron, register_thread, multi_register *)
(***************************************************************************)
\* The lanes of the run: the indices of wallet_groups.
Lanes == DOMAIN lane_pc

\* Mutant: a worker that was started counts as alive for good.
IsAliveOnceStarted(l) == lane_pc[l] # "none"

\* threading.Thread.is_alive() of lane l's worker.
IsAlive(l) == lane_pc[l] \notin {"none", "done"}

\* Python's truth value of a block number: None and 0 are false.
Truthy(block) == block # None /\ block # 0

\* Mutant: an attempt is refused unless the window is known to be open.
WindowGateUnlessKnownOpen(gcb) ==
    ~Truthy(gcb[1]) \/ gcb[2] = NoneInfo \/ ~gcb[2].in_window

\* register_neuron, "if current_block and window_info: if not in_window":
\* whether the attempt is refused because the window is closed.
WindowGate(gcb) ==
    /\ Truthy(gcb[1])
    /\ gcb[2] # NoneInfo
    /\ ~gcb[2].in_window

\* Mutant: the is_hotkey_registered probe is not consulted.
PreSubmitWithoutProbe(wallet, fault, cost, balance) ==
    IF fault THEN "Fault"
    ELSE IF cost = None THEN "TransientError"
    ELSE IF balance < cost THEN "InsufficientFunds"
    ELSE IF WindowGate(get_current_block) THEN "WindowClosed"
    ELSE "Submit"

\* register_neuron up to the call of bt.register: how it ends, "Submit" when
\* it goes on to bt.register.  fault: one of the chain queries raised.
PreSubmit(wallet, fault, cost, balance) ==
    IF fault THEN "Fault"
    ELSE IF wallet \in registered THEN "AlreadyRegistered"
    ELSE IF cost = None THEN "TransientError"
    ELSE IF balance < cost THEN "InsufficientFunds"
    ELSE IF WindowGate(get_current_block) THEN "WindowClosed"
    ELSE "Submit"

\* What register_neuron returns for each way it ends.
Returns(o) == o \in {"AlreadyRegistered", "Success"}

\* The ways register_neuron ends that call update_statistics.
Recorded(o) == o \in {"Success", "Failure", "Fault"}

\* Mutant: a wallet whose attempt raised is dropped.
RequeueUnlessFault(o) == ~Returns(o) /\ o # "Fault" /\ ~stop_event

\* register_thread, "if success is False and not stop_event.is_set()".
Requeue(o) == ~Returns(o) /\ ~stop_event

\* Mutant: the attempted wallet stays at the head of its lane.
PoppedKept(lane) == lane

\* register_thread, "wallet = wallets.pop(0)": the lane without its head.
Popped(lane) == Tail(lane)

\* Mutant: the wallet goes back to the head of its lane.
RequeuedAtHead(lane, wallet) == <<wallet>> \o lane

\* register_thread, "wallets.append(wallet)".
Requeued(lane, wallet) == Append(lane, wallet)

\* multi_register up to the supervisor loop: the empty work list returns at
\* once; otherwise the feed is started, the work list dealt and one worker
\* started per non-empty lane.
MultiRegister(ws, n, priced) ==
    /\ sup_pc = "idle"
    /\ wallets' = ws
    /\ thread_count' = n
    /\ use_priority_fee' = priced
    /\ IF ws = << >>
       THEN /\ sup_pc' = "returned"
            /\ UNCHANGED <<wallet_groups, laneVars, feedVars>>
       ELSE /\ StartMonitoring
            /\ wallet_groups' = Partition(ws, n)
            /\ lane_pc' = [l \in 0 .. n - 1 |->
                              IF Partition(ws, n)[l] # << >> THEN "loop" ELSE "none"]
            /\ cur' = [l \in 0 .. n - 1 |-> None]
            /\ outcome' = [l \in 0 .. n - 1 |-> "None"]
            /\ rd_attempts' = [l \in 0 .. n - 1 |-> None]
            /\ rd_successes' = [l \in 0 .. n - 1 |-> None]
            /\ delay_left' = [l \in 0 .. n - 1 |-> 0]
            /\ notified' = [l \in 0 .. n - 1 |-> FALSE]
            /\ sup_pc' = "monitor"
            /\ UNCHANGED <<current_block, since_update>>
    /\ registered_wallets' = << >>
    /\ UNCHANGED <<part_i, stop_event, registered, succeeded, started, summary>>
    /\ UNCHANGED <<feeVars, ret, timings, windowVars, rd_block, calls>>

\* multi_register interrupted (KeyboardInterrupt) while it deals the work
\* list, before a worker is started: the finally block sets the stop event
\* and fails on "elapsed = datetime.now() - start_time", start_time not yet
\* assigned, so the call raises with no summary logged and the feed running.
MultiRegisterInterrupted(ws, n, priced) ==
    /\ sup_pc = "idle"
    /\ ws # << >>
    /\ wallets' = ws
    /\ thread_count' = n
    /\ use_priority_fee' = priced
    /\ StartMonitoring
    /\ wallet_groups' = Partition(ws, n)
    /\ lane_pc' = [l \in 0 .. n - 1 |-> "none"]
    /\ cur' = [l \in 0 .. n - 1 |-> None]
    /\ outcome' = [l \in 0 .. n - 1 |-> "None"]
    /\ rd_attempts' = [l \in 0 .. n - 1 |-> None]
    /\ rd_successes' = [l \in 0 .. n - 1 |-> None]
    /\ delay_left' = [l \in 0 .. n - 1 |-> 0]
    /\ notified' = [l \in 0 .. n - 1 |-> FALSE]
    /\ stop_event' = TRUE
    /\ sup_pc' = "raised"
    /\ UNCHANGED <<current_block, since_update>>
    /\ UNCHANGED <<part_i, registered, succeeded, started, registered_wallets, summary>>
    /\ UNCHANGED <<feeVars, ret, timings, windowVars, rd_block, calls>>

\* register_thread: the loop condition fails and the worker ends.
LaneExit(l) ==
    /\ lane_pc[l] = "loop"
    /\ stop_event \/ wallet_groups[l] = << >>
    /\ lane_pc' = [lane_pc EXCEPT ![l] = "done"]
    /\ UNCHANGED <<cur, outcome, rd_attempts, rd_successes, delay_left, notified>>
    /\ UNCHANGED <<wallets, thread_count, use_priority_fee, wallet_groups, part_i,
                   stop_event, registered, succeeded, started, sup_pc,
                   registered_wallets, summary>>
    /\ UNCHANGED <<feeVars, feedVars, ret, timings, windowVars, rd_block, calls>>

\* register_thread pops the head wallet and register_neuron runs up to the
\* call of bt.register or to an early return.  A fault enters the except
\* branch, whose update_statistics(success=False) reads attempts.
LaneAttempt(l, fault, cost, balance) ==
    /\ lane_pc[l] = "loop"
    /\ ~stop_event /\ wallet_groups[l] # << >>
    /\ started < MaxRunAttempts
    /\ started' = started + 1
    /\ LET wallet == Head(wallet_groups[l])
           o == PreSubmit(wallet, fault, cost, balance)
       IN /\ wallet_groups' = [wallet_groups EXCEPT ![l] = Popped(@)]
          /\ cur' = [cur EXCEPT ![l] = wallet]
          /\ outcome' = [outcome EXCEPT ![l] = o]
          /\ lane_pc' = [lane_pc EXCEPT ![l] =
                            IF o = "Submit" THEN "call"
                            ELSE IF o = "Fault" THEN "upd"
                            ELSE "after"]
          /\ rd_attempts' = [rd_attempts EXCEPT ![l] =
                                IF o = "Fault" THEN attempts ELSE @]
          /\ notified' = [notified EXCEPT ![l] = (o = "Fault")]
          /\ calls' = IF o = "Fault" THEN <<calls[1] + 1, calls[2]>> ELSE calls
          /\ succeeded' = IF o = "AlreadyRegistered"
                          THEN succeeded \cup {wallet} ELSE succeeded
          /\ IF o = "Submit" /\ use_priority_fee
             THEN /\ last_fee' = Fee(cost)
                  /\ recent_fees' = FeesAfter(recent_fees, Fee(cost))
             ELSE UNCHANGED <<last_fee, recent_fees>>
    /\ UNCHANGED <<rd_successes, delay_left>>
    /\ UNCHANGED <<base_multiplier, max_multiplier, attempts, successes,
                   success_rate, block_congestion>>
    /\ UNCHANGED <<wallets, thread_count, use_priority_fee, part_i, stop_event,
                   registered, sup_pc, registered_wallets, summary>>
    /\ UNCHANGED <<feedVars, ret, timings, windowVars, rd_block>>

\* bt.register returns (True, False, or it raises), the notification is sent
\* and update_statistics(success=...) reads attempts.
LaneRegisterReturn(l, result) ==
    /\ lane_pc[l] = "call"
    /\ outcome' = [outcome EXCEPT ![l] = result]
    /\ registered' = IF result = "Success" THEN registered \cup {cur[l]} ELSE registered
    /\ rd_attempts' = [rd_attempts EXCEPT ![l] = attempts]
    /\ notified' = [notified EXCEPT ![l] = TRUE]
    /\ calls' = <<calls[1] + 1, IF result = "Success" THEN calls[2] + 1 ELSE calls[2]>>
    /\ lane_pc' = [lane_pc EXCEPT ![l] = "upd"]
    /\ UNCHANGED <<cur, rd_successes, delay_left>>
    /\ UNCHANGED <<wallets, thread_count, use_priority_fee, wallet_groups, part_i,
                   stop_event, succeeded, started, sup_pc, registered_wallets,
                   summary>>
    /\ UNCHANGED <<feeVars, feedVars, ret, timings, windowVars, rd_block>>

\* update_statistics, "self.attempts += 1": the store; then "if success:
\* self.successes += 1" reads successes.  No lock is held.
LaneStoreAttempts(l) ==
    /\ lane_pc[l] = "upd"
    /\ attempts' = rd_attempts[l] + 1
    /\ rd_successes' = [rd_successes EXCEPT ![l] =
                           IF outcome[l] = "Success" THEN successes ELSE @]
    /\ lane_pc' = [lane_pc EXCEPT ![l] = "upd2"]
    /\ UNCHANGED <<cur, outcome, rd_attempts, delay_left, notified>>
    /\ UNCHANGED <<base_multiplier, max_multiplier, successes, success_rate,
                   block_congestion, recent_fees, last_fee>>
    /\ UNCHANGED <<wallets, thread_count, use_priority_fee, wallet_groups, part_i,
                   stop_event, registered, succeeded, started, sup_pc,
                   registered_wallets, summary>>
    /\ UNCHANGED <<feedVars, ret, timings, windowVars, rd_block, calls>>

\* update_statistics: the store of successes, "self.success_rate =
\* self.successes / self.attempts", and register_neuron returns.
LaneStoreRate(l) ==
    /\ lane_pc[l] = "upd2"
    /\ successes' = IF outcome[l] = "Success" THEN rd_successes[l] + 1 ELSE successes
    /\ success_rate' = <<successes', attempts>>
    /\ succeeded' = IF Returns(outcome[l]) THEN succeeded \cup {cur[l]} ELSE succeeded
    /\ lane_pc' = [lane_pc EXCEPT ![l] = "after"]
    /\ UNCHANGED <<cur, outcome, rd_attempts, rd_successes, delay_left, notified>>
    /\ UNCHANGED <<base_multiplier, max_multiplier, attempts, block_congestion,
                   recent_fees, last_fee>>
    /\ UNCHANGED <<wallets, thread_count, use_priority_fee, wallet_groups, part_i,
                   stop_event, registered, started, sup_pc, registered_wallets,
                   summary>>
    /\ UNCHANGED <<feedVars, ret, timings, windowVars, rd_block, calls>>

\* register_thread after register_neuron has returned: the wallet goes back
\* to the tail of the lane unless it succeeded or the run is stopping, and
\* "if not stop_event.is_set() and wallets" the worker enters its delay loop
\* of d passes.  The worker's locals are dead from here to the next pop and
\* are cleared.
LaneAfter(l, d) ==
    /\ lane_pc[l] = "after"
    /\ wallet_groups' = [wallet_groups EXCEPT ![l] =
                            IF Requeue(outcome[l]) THEN Requeued(@, cur[l]) ELSE @]
    /\ IF ~stop_event /\ wallet_groups'[l] # << >>
       THEN /\ lane_pc' = [lane_pc EXCEPT ![l] = "delay"]
            /\ delay_left' = [delay_left EXCEPT ![l] = d]
       ELSE /\ lane_pc' = [lane_pc EXCEPT ![l] = "loop"]
            /\ delay_left' = [delay_left EXCEPT ![l] = 0]
    /\ notified' = [notified EXCEPT ![l] = FALSE]
    /\ cur' = [cur EXCEPT ![l] = None]
    /\ outcome' = [outcome EXCEPT ![l] = "None"]
    /\ rd_attempts' = [rd_attempts EXCEPT ![l] = None]
    /\ rd_successes' = [rd_successes EXCEPT ![l] = None]
    /\ UNCHANGED <<wallets, thread_count, use_priority_fee, part_i, stop_event,
                   registered, succeeded, started, sup_pc, registered_wallets, summary>>
    /\ UNCHANGED <<feeVars, feedVars, ret, timings, windowVars, rd_block, calls>>

\* Mutant: the delay loop does not look at the stop event.
DelayNeverBreaks == FALSE

\* register_thread, the delay loop: "if stop_event.is_set(): break".
DelayBreaks == stop_event

\* One pass of the delay loop "for _ in range(int(delay))": it breaks when the
\* stop event is set and sleeps one second otherwise; after the last pass the
\* worker is back at the loop condition.
LaneDelayStep(l) ==
    /\ lane_pc[l] = "delay"
    /\ IF DelayBreaks
       THEN /\ delay_left' = [delay_left EXCEPT ![l] = 0]
            /\ lane_pc' = [lane_pc EXCEPT ![l] = "loop"]
       ELSE /\ delay_left' = [delay_left EXCEPT ![l] = @ - 1]
            /\ lane_pc' = [lane_pc EXCEPT ![l] =
                              IF delay_left[l] - 1 = 0 THEN "loop" ELSE "delay"]
    /\ UNCHANGED <<cur, outcome, rd_attempts, rd_successes, notified>>
    /\ UNCHANGED <<wallets, thread_count, use_priority_fee, wallet_groups, part_i,
                   stop_event, registered, succeeded, started, sup_pc,
                   registered_wallets, summary>>
    /\ UNCHANGED <<feeVars, feedVars, ret, timings, windowVars, rd_block, calls>>

\* The supervisor's sweep: the wallets not yet in registered_wallets whose
\* is_hotkey_registered probe answers true are appended, in work-list order.
\* failed: the wallets whose probe raised in this sweep.
SweepFound(failed) ==
    SelectSeq(wallets, LAMBDA w : /\ w \notin Range(registered_wallets)
                                  /\ w \in registered
                                  /\ w \notin failed)

SupSweep(failed) ==
    /\ sup_pc = "monitor"
    /\ \E l \in Lanes : IsAlive(l)
    /\ registered_wallets' = registered_wallets \o SweepFound(failed)
    /\ UNCHANGED <<wallets, thread_count, use_priority_fee, wallet_groups, part_i,
                   laneVars, stop_event, registered, succeeded, started, sup_pc,
                   summary>>
    /\ UNCHANGED <<feeVars, feedVars, ret, timings, windowVars, rd_block, calls>>

\* The attributes of a RegistrationAssistant: those __init__ assigns and the
\* methods of the class (it has no base class and no __getattr__).
AssistantAttributes ==
    {"network", "rpc_url", "block_monitor", "fee_strategy", "discover_wallets",
     "select_wallets", "get_registration_cost", "register_neuron",
     "register_thread", "multi_register"}

\* multi_register, "if current_block and window_info": the status block is
\* built and logged.
StatusShown(gcb) == Truthy(gcb[1]) /\ gcb[2] # NoneInfo

\* multi_register, "if elapsed.total_seconds() % 1800 < 10".
StatusDue(elapsed) == elapsed % StatusPeriod < StatusSlack

\* The status block of a sweep: whether a message went out through
\* send_telegram and how long the supervisor sleeps before its next sweep.
\* The update is sent with "self.send_telegram(...)": looking up an attribute
\* the instance lacks raises AttributeError, which "except Exception" logs
\* before "time.sleep(30)".
SweepStatus(gcb, elapsed) ==
    IF StatusShown(gcb) /\ StatusDue(elapsed)
    THEN IF "send_telegram" \in AssistantAttributes
         THEN [sent |-> TRUE, sleep |-> SweepSleep]
         ELSE [sent |-> FALSE, sleep |-> SweepErrorSleep]
    ELSE [sent |-> FALSE, sleep |-> SweepSleep]

\* One pass of the supervisor loop with its status block: the sweep, then
\* get_current_block, the elapsed time and the status.
SupStatusSweep(failed, elapsed) ==
    /\ sup_pc = "monitor"
    /\ \E l \in Lanes : IsAlive(l)
    /\ registered_wallets' = registered_wallets \o SweepFound(failed)
    /\ ret' = [op |-> "sweep",
               arg |-> [elapsed |-> elapsed, block |-> get_current_block[1]],
               val |-> SweepStatus(get_current_block, elapsed)]
    /\ UNCHANGED <<wallets, thread_count, use_priority_fee, wallet_groups, part_i,
                   laneVars, stop_event, registered, succeeded, started, sup_pc,
                   summary>>
    /\ UNCHANGED <<feeVars, feedVars, timings, windowVars, rd_block, calls>>

\* "while any(thread.is_alive() ...)" fails, or KeyboardInterrupt breaks the
\* loop.
SupLeaveLoop(interrupted) ==
    /\ sup_pc = "monitor"
    /\ interrupted \/ \A l \in Lanes : ~IsAlive(l)
    /\ sup_pc' = "finally"
    /\ UNCHANGED <<wallets, thread_count, use_priority_fee, wallet_groups, part_i,
                   laneVars, stop_event, registered, succeeded, started,
                   registered_wallets, summary>>
    /\ UNCHANGED <<feeVars, feedVars, ret, timings, windowVars, rd_block, calls>>

\* The summary multi_register logs.
SummaryOf(total, confirmed) ==
    [total |-> total, confirmed |-> confirmed, remaining |-> total - confirmed]

\* finally: the stop event is set, each worker joined for at most 5 seconds,
\* the summary logged and the feed stopped.
SupFinally ==
    /\ sup_pc = "finally"
    /\ stop_event' = TRUE
    /\ summary' = SummaryOf(Len(wallets), Len(registered_wallets))
    /\ StopMonitoring
    /\ sup_pc' = "returned"
    /\ UNCHANGED <<wallets, thread_count, use_priority_fee, wallet_groups, part_i,
                   laneVars, registered, succeeded, started, registered_wallets>>
    /\ UNCHANGED <<current_block, since_update>>
    /\ UNCHANGED <<feeVars, ret, timings, windowVars, rd_block, calls>>

\* Another process registers the hotkey of wallet w.
ExternalRegistration(w) ==
    /\ sup_pc = "monitor"
    /\ w \in Range(wallets) /\ w \notin registered
    /\ registered' = registered \cup {w}
    /\ UNCHANGED <<wallets, thread_count, use_priority_fee, wallet_groups, part_i,
                   laneVars, stop_event, succeeded, started, sup_pc,
                   registered_wallets, summary>>
    /\ UNCHANGED <<feeVars, feedVars, ret, timings, windowVars, rd_block, calls>>

\* The polling thread and the clock during a run.  Between two steps of a
\* run at least the freshness horizon may pass.
RunTick ==
    \E res \in ProbeResults :
        /\ MonitorTick(res)
        /\ UNCHANGED <<feeVars, runVars, ret, timings, windowVars, rd_block, calls>>

RunMonitorExit ==
    /\ MonitorExit
    /\ UNCHANGED <<feeVars, runVars, ret, timings, windowVars, rd_block, calls>>

RunSleep ==
    /\ since_update < FreshnessHorizon
    /\ since_update' = FreshnessHorizon
    /\ UNCHANGED <<current_block, monitor_alive, monitor_stop, monitor_threads>>
    /\ UNCHANGED <<feeVars, runVars, ret, timings, windowVars, rd_block, calls>>

Init ==
    /\ FeeInit(<<BASE_PRIORITY_FEE, MAX_PRIORITY_FEE>>)
    /\ FeedInit
    /\ RunInit
    /\ RetInit
    /\ timings = 0
    /\ calls = <<0, 0>>

Next ==
    \/ \E ws \in WorkLists, n \in ThreadCounts, priced \in BOOLEAN :
           MultiRegister(ws, n, priced)
    \/ \E ws \in WorkLists, n \in ThreadCounts, priced \in BOOLEAN :
           MultiRegisterInterrupted(ws, n, priced)
    \/ \E l \in Lanes : LaneExit(l)
    \/ \E l \in Lanes, fault \in BOOLEAN, cost \in ChainCosts, balance \in Balances :
           LaneAttempt(l, fault, cost, balance)
    \/ \E l \in Lanes, result \in {"Success", "Failure", "Fault"} :
           LaneRegisterReturn(l, result)
    \/ \E l \in Lanes : LaneStoreAttempts(l)
    \/ \E l \in Lanes : LaneStoreRate(l)
    \/ \E l \in Lanes, d \in DelayChoices : LaneAfter(l, d)
    \/ \E l \in Lanes : LaneDelayStep(l)
    \/ \E failed \in SUBSET Range(wallets) : SupSweep(failed)
    \/ \E interrupted \in BOOLEAN : SupLeaveLoop(interrupted)
    \/ SupFinally
    \/ \E w \in ExternalWallets : ExternalRegistration(w)
    \/ RunTick
    \/ RunMonitorExit
    \/ RunSleep

\* A run of multi_register with its lane workers, its supervisor, the block
\* feed's thread and the chain.
Spec == Init /\ [][Next]_vars

\* The steps of lane l's worker.
LaneStep(l) ==
    \/ LaneExit(l)
    \/ \E fault \in BOOLEAN, cost \in ChainCosts, balance \in Balances :
           LaneAttempt(l, fault, cost, balance)
    \/ \E result \in {"Success", "Failure", "Fault"} : LaneRegisterReturn(l, result)
    \/ LaneStoreAttempts(l)
    \/ LaneStoreRate(l)
    \/ \E d \in DelayChoices : LaneAfter(l, d)
    \/ LaneDelayStep(l)

\* A run nobody interrupts: no KeyboardInterrupt reaches multi_register.
NextLive ==
    \/ \E ws \in WorkLists, n \in ThreadCounts, priced \in BOOLEAN :
           MultiRegister(ws, n, priced)
    \/ \E l \in Lanes : LaneStep(l)
    \/ \E failed \in SUBSET Range(wallets) : SupSweep(failed)
    \/ SupLeaveLoop(FALSE)
    \/ SupFinally
    \/ \E w \in ExternalWallets : ExternalRegistration(w)
    \/ RunTick
    \/ RunMonitorExit
    \/ RunSleep

\* The lane indices a run can have.
LaneIds == UNION { 0 .. n - 1 : n \in ThreadCounts }

\* Every worker thread and the supervisor keep being scheduled, and every
\* call they make returns: bt.register, time.sleep and the joins with their
\* timeouts.
Fairness ==
    /\ \A l \in LaneIds : WF_vars(l \in Lanes /\ LaneStep(l))
    /\ WF_vars(SupLeaveLoop(FALSE))
    /\ WF_vars(SupFinally)

\* An uninterrupted run under fair scheduling.
SpecLive == Init /\ [][NextLive]_vars /\ Fairness

NextSweep ==
    \/ \E ws \in WorkLists, n \in ThreadCounts, priced \in BOOLEAN :
           MultiRegister(ws, n, priced)
    \/ \E failed \in SUBSET Range(wallets), elapsed \in ElapsedChoices :
           SupStatusSweep(failed, elapsed)
    \/ \E w \in ExternalWallets : ExternalRegistration(w)
    \/ RunTick
    \/ RunSleep

\* The supervisor loop of a run whose workers are busy: its sweeps with their
\* status block, the block feed's thread and the chain.
SpecSweep == Init /\ [][NextSweep]_vars

(***************************************************************************)
(* Properties                                                              *)
(***************************************************************************)
\* Lane l calls register_neuron in this step.
AttemptStep(l) == lane_pc[l] = "loop" /\ lane_pc'[l] \notin {"loop", "done"}

\* Lane l passes "if success is False and not stop_event.is_set()" in this
\* step.
AfterStep(l) == lane_pc[l] = "after" /\ lane_pc'[l] \in {"loop", "delay"}

\* C1: an attempt on a wallet whose hotkey is registered never reaches
\* bt.register; when the probe answers (no fault) register_neuron returns
\* True, the worker does not put the wallet back in its lane, and no lane
\* holds or attempts a wallet for which register_neuron has returned True.
AlreadyRegisteredIsFinal ==
    /\ [][\A l \in Lanes :
            /\ AttemptStep(l) /\ Head(wallet_groups[l]) \in registered =>
                   /\ outcome'[l] \in {"AlreadyRegistered", "Fault"}
                   /\ lane_pc'[l] # "call"
                   /\ UNCHANGED <<recent_fees, last_fee, registered>>
                   /\ outcome'[l] = "AlreadyRegistered" =>
                          lane_pc'[l] = "after" /\ Returns(outcome'[l])
            /\ AfterStep(l) /\ outcome[l] = "AlreadyRegistered" =>
                   wallet_groups'[l] = wallet_groups[l]
         ]_vars
    /\ [](\A l \in Lanes :
            /\ lane_pc[l] = "after" /\ outcome[l] = "AlreadyRegistered" =>
                   cur[l] \in succeeded
            /\ \A w \in succeeded :
                   /\ w \notin Range(wallet_groups[l])
                   /\ cur[l] = w => lane_pc[l] = "after" /\ Returns(outcome[l]))

\* C1 witness: wallet 1 was found registered by its lane, which goes on with
\* nothing submitted, nothing recorded and the wallet in no lane.
RegisteredWalletDropped ==
    /\ sup_pc = "monitor" /\ ~stop_event
    /\ 1 \in succeeded /\ 1 \in registered
    /\ attempts = 0 /\ recent_fees = << >>
    /\ \A l \in Lanes :
           lane_pc[l] \in {"loop", "none"} /\ 1 \notin Range(wallet_groups[l])

\* C2: when multi_register logs its summary after every lane worker has
\* ended, the count it reports is the number of wallets for which
\* register_neuron returned True, and the remaining count is the rest.
SummaryCountsEverySuccess ==
    [][(sup_pc = "finally" /\ sup_pc' = "returned" /\ \A l \in Lanes : ~IsAlive(l)) =>
          /\ summary'.confirmed = Cardinality(succeeded)
          /\ summary'.remaining = Len(wallets) - Cardinality(succeeded)
      ]_vars

\* C3: a wallet whose attempt ended for want of balance is not put back in
\* its lane.
InsufficientFundsIsFinal ==
    [][\A l \in Lanes :
          AfterStep(l) /\ outcome[l] = "InsufficientFunds" =>
              wallet_groups'[l] = wallet_groups[l]
      ]_vars

\* C4: an attempt whose submission failed raises FeeStats.attempts by exactly
\* one, leaves successes alone, and (the stop event not set) puts the wallet
\* back at the tail of its lane.
FailureCountsOnceAndRequeues ==
    [][\A l \in Lanes :
          /\ lane_pc[l] = "upd" /\ outcome[l] = "Failure" /\ lane_pc'[l] = "upd2" =>
                 attempts' = attempts + 1 /\ successes' = successes
          /\ lane_pc[l] = "upd2" /\ outcome[l] = "Failure" /\ lane_pc'[l] = "after" =>
                 attempts' = attempts /\ successes' = successes
          /\ AfterStep(l) /\ outcome[l] = "Failure" /\ ~stop_event =>
                 wallet_groups'[l] = Append(wallet_groups[l], cur[l])
      ]_vars

\* The feed knows a block (fresh observation) that lies outside the window.
KnownOutsideWindow ==
    /\ current_block # None /\ current_block >= 0
    /\ since_update < FreshnessHorizon
    /\ current_block % TEMPO \notin BLOCK_WINDOW

\* C5: with a known block outside the window, an attempt that passes the
\* registration, cost and balance checks ends as WindowClosed: bt.register is
\* not called, no fee is computed, and the wallet goes back to its lane.
ClosedWindowRefusesAttempt ==
    [][\A l \in Lanes :
          /\ ( /\ AttemptStep(l) /\ KnownOutsideWindow
               /\ outcome'[l] \notin {"Fault", "AlreadyRegistered", "TransientError",
                                     "InsufficientFunds"} ) =>
                 /\ outcome'[l] = "WindowClosed"
                 /\ lane_pc'[l] = "after"
                 /\ UNCHANGED <<recent_fees, last_fee>>
          /\ AfterStep(l) /\ outcome[l] = "WindowClosed" /\ ~stop_event =>
                 wallet_groups'[l] = Append(wallet_groups[l], cur[l])
      ]_vars

\* C7: the fee compute_priority_fee returns is at most base_cost times
\* max_multiplier.
FeeAtMostMaxMultiplier ==
    ret.op = "compute_priority_fee" => ret.val <= ret.arg * max_multiplier

\* C8: with attempts <= adapt_threshold compute_priority_fee returns exactly
\* base_cost * base_multiplier, whatever the congestion and the success rate;
\* with attempts above it the fee is that of the success-rate tier.
ColdStartFeeIsFlat ==
    ret.op = "compute_priority_fee" =>
        IF attempts <= adapt_threshold
        THEN ret.val = ret.arg * base_multiplier
        ELSE ret.val = ret.arg *
                 ( IF 5 * successes < attempts
                   THEN Min(max_multiplier,
                            max_multiplier - 500 + block_congestion \div 2)
                   ELSE IF 2 * successes < attempts
                   THEN Min(max_multiplier - 200,
                            base_multiplier + 500 + (3 * block_congestion) \div 10)
                   ELSE base_multiplier + block_congestion \div 5 )

\* C8 witness: a flat fee at the threshold itself, under congestion and with
\* no success so far.
FlatFeeAtThreshold ==
    /\ ret.op = "compute_priority_fee"
    /\ attempts = adapt_threshold /\ successes = 0 /\ block_congestion > 0
    /\ ret.val = ret.arg * base_multiplier
    /\ last_fee = ret.val

\* C9: get_current_block returns (None, None) when no height is cached or the
\* observation is 10 seconds old or older, and the cached height with its
\* window information when it is younger.
StaleObservationIsUnknown ==
    ret.op = "get_current_block" =>
        IF current_block = None \/ since_update >= 10
        THEN ret.val = <<None, NoneInfo>>
        ELSE /\ ret.val[1] = current_block
             /\ ret.val[2] = _get_window_info(current_block)
             /\ ret.val[2].block_in_tempo = current_block % TEMPO

\* C9 witness: a cached height is present and reported unknown.
CachedButStale ==
    /\ ret.op = "get_current_block"
    /\ current_block # None /\ since_update = 10
    /\ ret.val = <<None, NoneInfo>>

\* C10: the cached height never decreases, and changes only in a polling
\* tick in which a probe succeeded.
CachedHeightNeverDecreases ==
    [][/\ current_block # None => current_block' >= current_block
       /\ current_block' # current_block =>
              ret'.op = "_monitor_blocks" /\ ret'.val # 0
      ]_vars

\* A call of _get_window_info on a height (not None) has just returned.
WindowInfoReturned == ret.op = "_get_window_info" /\ ret.arg # None

\* C11: _get_window_info(h) has in_window true exactly when h mod tempo is in
\* block_window, and block_in_tempo equal to h mod tempo.
InWindowIffOffsetInWindowSet ==
    WindowInfoReturned =>
        /\ ret.val.in_window <=> (ret.arg % tempo) \in block_window
        /\ ret.val.block_in_tempo = ret.arg % tempo

\* C11 witness: tempo 3, window {0, 2}, height 5 is in the window (offset 2).
OffsetTwoOfThree ==
    /\ WindowInfoReturned
    /\ tempo = 3 /\ block_window = {0, 2} /\ ret.arg = 5
    /\ ret.val.in_window /\ ret.val.block_in_tempo = 2

\* C12: in the window blocks_left is max(window) - offset when that is
\* positive and (max(window) - min(window)) + tempo at the last offset, so it
\* is at least 1; with tempo 360 and window 10..59 offset 59 is in the window
\* with blocks_left = 409.
BlocksLeftWrapsAtLastOffset ==
    WindowInfoReturned =>
        /\ ret.val.in_window =>
               /\ ret.val.blocks_left =
                      IF SetMax(block_window) - (ret.arg % tempo) > 0
                      THEN SetMax(block_window) - (ret.arg % tempo)
                      ELSE (SetMax(block_window) - SetMin(block_window)) + tempo
               /\ ret.val.blocks_left >= 1
        /\ (tempo = 360 /\ block_window = 10 .. 59 /\ ret.arg % 360 = 59) =>
               ret.val.in_window /\ ret.val.blocks_left = 409

\* C12 witness: height 419 (offset 59) under the configured tempo and window.
LastOffsetOfConfiguredWindow ==
    /\ WindowInfoReturned
    /\ tempo = 360 /\ block_window = 10 .. 59 /\ ret.arg = 419
    /\ ret.val.in_window /\ ret.val.blocks_left = 409

\* C13: outside the window next_window is the least d >= 1 with
\* (h + d) mod tempo in block_window; with tempo 360 and window 10..59 offset
\* 5 is outside the window with next_window = 5.
NextWindowIsNearestEligible ==
    WindowInfoReturned =>
        /\ ~ret.val.in_window =>
               /\ ret.val.next_window >= 1
               /\ (ret.arg + ret.val.next_window) % tempo \in block_window
               /\ \A d \in 1 .. ret.val.next_window - 1 :
                      (ret.arg + d) % tempo \notin block_window
        /\ (tempo = 360 /\ block_window = 10 .. 59 /\ ret.arg % 360 = 5) =>
               ~ret.val.in_window /\ ret.val.next_window = 5

\* C13 witness: height 365 (offset 5) under the configured tempo and window.
FiveBeforeConfiguredWindow ==
    /\ WindowInfoReturned
    /\ tempo = 360 /\ block_window = 10 .. 59 /\ ret.arg = 365
    /\ ~ret.val.in_window /\ ret.val.next_window = 5

\* C14: recent_fees never holds more than 10 entries, also when the
\* supervisor's get_fee_statistics reads it while lanes are pricing.
RecentFeesWithinCapacity ==
    ret.op = "get_fee_statistics" => ret.val.avg_fee[2] <= RecentFeesCapacity

\* C15: once every update_statistics(success=...) call the lanes made has
\* returned, attempts is the number of those calls and successes the number
\* of them made with success=True.
NoOutcomeUpdateLost ==
    (\A l \in Lanes : lane_pc[l] \notin {"upd", "upd2"}) =>
        attempts = calls[1] /\ successes = calls[2]

NotifiesExactlyAfterSubmission ==
    [][\A l \in Lanes :
          (notified'[l] /\ ~notified[l]) <=> (lane_pc[l] = "call" /\ lane_pc'[l] # "call")
      ]_vars

\* C19: a fault raised in a worker's attempt stays in that worker: it goes on
\* to record the failed attempt, puts the wallet back at the tail of its lane
\* (the stop event not set) and stays alive, while no other worker and not
\* the supervisor changes position in that step.
FaultStaysInItsLane ==
    [][\A l \in Lanes :
          /\ (outcome'[l] = "Fault" /\ outcome[l] # "Fault") =>
                 /\ lane_pc'[l] = "upd"
                 /\ sup_pc' = sup_pc
                 /\ \A k \in Lanes \ {l} : lane_pc'[k] = lane_pc[k]
          /\ (AfterStep(l) /\ outcome[l] = "Fault") =>
                 /\ ~stop_event => wallet_groups'[l] = Append(wallet_groups[l], cur[l])
                 /\ lane_pc'[l] \in {"loop", "delay"}
                 /\ sup_pc' = sup_pc
                 /\ \A k \in Lanes \ {l} : lane_pc'[k] = lane_pc[k]
      ]_vars

\* C19 witness: wallet 1's attempt raised before any submission (fees are on
\* and none was computed); the failure was recorded and the wallet is back
\* at the tail of its lane, whose worker is in its delay.
FaultedWalletRequeued ==
    /\ sup_pc = "monitor" /\ ~stop_event
    /\ use_priority_fee /\ recent_fees = << >>
    /\ calls = <<1, 0>> /\ attempts = 1
    /\ \E l \in Lanes : lane_pc[l] = "delay" /\ wallet_groups[l] = <<2, 1>>

\* C20: a polling tick asks the sources in their declared order up to the
\* first one that answers and no further; the cache then holds that source's
\* height with last_updated refreshed; when no source answers, height and
\* last_updated are as before.
TickStopsAtFirstSuccess ==
    [][ret'.op = "_monitor_blocks" =>
          IF \A i \in 1 .. NumSources : ret'.arg[i] = None
          THEN ret'.val = 0 /\ UNCHANGED <<current_block, since_update>>
          ELSE /\ ret'.val \in 1 .. NumSources
               /\ ret'.arg[ret'.val] # None
               /\ \A j \in 1 .. ret'.val - 1 : ret'.arg[j] = None
               /\ current_block' = ret'.arg[ret'.val]
               /\ since_update' = 0
      ]_vars

\* C20 witness: the first two sources failed, the third answered, and the
\* cache holds its height, not the one the fourth would have given.
ThirdSourceAnswered ==
    /\ ret.op = "_monitor_blocks" /\ ret.val = 3
    /\ current_block = ret.arg[3] /\ since_update = 0
    /\ ret.arg[4] # None /\ current_block # ret.arg[4]

\* C21: over any sequence of start_monitoring and stop_monitoring calls at
\* most one polling thread is alive; a start on a running feed starts no
\* second thread and changes no state; a stop call can be made in every state
\* and returns with the stop event set, whether or not the thread has ended.
AtMostOnePollingLoop ==
    /\ [](/\ monitor_threads <= 1
          /\ monitor_alive <=> monitor_threads = 1
          /\ ENABLED FeedStop)
    /\ [][/\ (ret'.op = "start_monitoring" /\ monitor_alive) =>
                 UNCHANGED <<feedVars, feeVars, runVars, windowVars, rd_block>>
          /\ ret'.op = "stop_monitoring" =>
                 /\ monitor_stop'
                 /\ UNCHANGED <<monitor_alive, monitor_threads>>
         ]_vars

\* C21 witness: stop returned while the thread was still alive (its join
\* timed out), and the start called next left the one thread and the set
\* stop event as they were.
StartOnRunningFeedIgnored ==
    /\ ret.op = "start_monitoring"
    /\ monitor_alive /\ monitor_stop /\ monitor_threads = 1

\* C30: when start_monitoring returns, also right after a stop_monitoring, a
\* polling thread is alive with the stop event clear, and it stays so (ticking
\* and refreshing the cache) until the next stop_monitoring call.
StartAlwaysLeavesFeedRunning ==
    /\ [](ret.op = "start_monitoring" => monitor_alive /\ ~monitor_stop)
    /\ [][(monitor_alive /\ ~monitor_stop /\ ret'.op # "stop_monitoring") =>
              (monitor_alive' /\ ~monitor_stop')
         ]_vars

\* C22: a sweep in which get_current_block knows the block and the elapsed
\* seconds modulo 1800 are below 10 sends the status update through
\* send_telegram and sleeps its usual 60 seconds.
StatusUpdateEveryHalfHour ==
    (/\ ret.op = "sweep"
     /\ ret.arg.block # None
     /\ ret.arg.elapsed % 1800 < 10) =>
        ret.val.sent /\ ret.val.sleep = 60

\* C23: a wallet whose attempt returned False goes back (the stop event not
\* set) to the tail of the lane it was popped from and to no other lane; a
\* lane changes only by its worker popping its head wallet or appending the
\* wallet it popped, so a requeued wallet is attempted again only after the
\* wallets queued before it; every wallet is held by the lane the partition
\* gave it to, at most once.
FailedWalletJoinsTailOfOwnLane ==
    /\ [][\A l \in Lanes :
            /\ (AfterStep(l) /\ ~Returns(outcome[l]) /\ ~stop_event) =>
                   /\ wallet_groups'[l] = Append(wallet_groups[l], cur[l])
                   /\ \A k \in Lanes \ {l} : wallet_groups'[k] = wallet_groups[k]
            /\ AttemptStep(l) =>
                   /\ cur'[l] = Head(wallet_groups[l])
                   /\ wallet_groups'[l] = Tail(wallet_groups[l])
                   /\ \A k \in Lanes \ {l} : wallet_groups'[k] = wallet_groups[k]
            /\ wallet_groups'[l] # wallet_groups[l] => AttemptStep(l) \/ AfterStep(l)
         ]_vars
    /\ [](\A l \in Lanes : \A w \in Range(wallets) :
            /\ (w \in Range(wallet_groups[l]) \/ cur[l] = w) =>
                   w \in Range(Partition(wallets, thread_count)[l])
            /\ Occurrences(wallet_groups[l], w) + (IF cur[l] = w THEN 1 ELSE 0) <= 1)

\* C23 witness: in a single lane dealt <<1, 2>>, wallet 1 failed and was put
\* back behind wallet 2, which is the wallet now being attempted.
RequeuedBehindTheOther ==
    /\ sup_pc = "monitor" /\ ~stop_event
    /\ thread_count = 1 /\ wallets = <<1, 2>>
    /\ wallet_groups[0] = <<1>> /\ cur[0] = 2
    /\ 1 \notin succeeded

\* C24: get_fee_statistics returns a result, raising no ZeroDivisionError, in
\* every state the fee controller reaches, for every base_multiplier >= 0
\* (0 included) and every base_cost, with an empty history or a last fee of 0.
StatisticsNeverDivideByZero ==
    ret.op = "get_fee_statistics" => ret.val.error = "None"

\* C25: with no compute_priority_fee call made yet get_fee_statistics returns
\* avg_fee = min_fee = max_fee = 0 and current_multiplier = base_multiplier,
\* whatever outcomes and timings were recorded, and changes no field.
EmptyHistoryStatisticsAreFlat ==
    /\ [](ret.op = "get_fee_statistics" /\ recent_fees = << >> =>
            /\ ret.val.error = "None"
            /\ ret.val.avg_fee[1] = 0
            /\ ret.val.min_fee = 0 /\ ret.val.max_fee = 0
            /\ ret.val.current_multiplier = base_multiplier)
    /\ [][ret'.op = "get_fee_statistics" => UNCHANGED feeVars]_vars

\* C25 witness: statistics asked for with no fee computed, after more than
\* adapt_threshold attempts without a success and under congestion.
FlatStatisticsAfterFailures ==
    /\ ret.op = "get_fee_statistics" /\ recent_fees = << >>
    /\ attempts > adapt_threshold /\ successes = 0 /\ block_congestion > 0
    /\ ret.val.current_multiplier = base_multiplier
    /\ ret.val.max_fee = 0

\* C28: update_statistics with a block time above 6 seconds never lowers
\* block_congestion, the indicator decreases only on a block time of 6
\* seconds or less, and it stays within [0, 1].
SlowBlockNeverLowersCongestion ==
    /\ 0 <= block_congestion /\ block_congestion <= 1000
    /\ ret.op = "update_statistics(block_time)" =>
           /\ ret.arg > 6 => block_congestion >= ret.val
           /\ block_congestion < ret.val => ret.arg <= 6

\* C27: while get_current_block reports (None, None), no height cached or the
\* observation 10 seconds old or older, an attempt that passes the
\* registration, cost and balance checks is not refused for the window: it
\* computes the fee (when fees are on) and goes on to bt.register.
UnknownWindowDoesNotGate ==
    [][\A l \in Lanes :
          ( /\ AttemptStep(l)
            /\ (current_block = None \/ since_update >= 10)
            /\ outcome'[l] \notin {"Fault", "AlreadyRegistered", "TransientError",
                                  "InsufficientFunds"} ) =>
              /\ outcome'[l] = "Submit"
              /\ lane_pc'[l] = "call"
              /\ IF use_priority_fee
                 THEN /\ last_fee' # None
                      /\ recent_fees' = FeesAfter(recent_fees, last_fee')
                 ELSE UNCHANGED <<recent_fees, last_fee>>
      ]_vars

\* C27 witness: the feed has observed no block at all, and a priced attempt's
\* bt.register call is in flight.
SubmittedWithWindowUnknown ==
    /\ current_block = None
    /\ use_priority_fee /\ recent_fees # << >>
    /\ \E l \in Lanes : lane_pc[l] = "call" /\ outcome[l] = "Submit"

\* C29: attempts, successes and success_rate change only in the
\* update_statistics call of an attempt that called bt.register; an attempt
\* that ends before bt.register (already registered, no cost, balance too
\* low, window closed, or a chain query that raised) returns with no
\* update_statistics call and the three fields as they were.
StatisticsChangeOnlyOnSubmission ==
    [][/\ \A l \in Lanes :
             (AttemptStep(l) /\ lane_pc'[l] # "call") =>
                 /\ lane_pc'[l] = "after"
                 /\ calls' = calls
                 /\ UNCHANGED <<attempts, successes, success_rate>>
       /\ (attempts' # attempts \/ successes' # successes
               \/ success_rate' # success_rate) =>
              \E l \in Lanes : /\ lane_pc[l] \in {"upd", "upd2"}
                               /\ lane_pc'[l] # lane_pc[l]
      ]_vars

\* multi_register has returned with every lane empty and every worker ended.
RunCompleted ==
    /\ sup_pc = "returned"
    /\ DOMAIN summary # {}
    /\ \A l \in Lanes : lane_pc[l] \in {"none", "done"} /\ wallet_groups[l] = << >>

\* C26: in an uninterrupted run under fair scheduling, once register_neuron
\* has returned True for every wallet of the work list, every lane becomes
\* empty, every worker ends, the supervisor leaves its loop and
\* multi_register returns.
AllRegisteredLeadsToReturn ==
    (wallets # << >> /\ Range(wallets) \subseteq succeeded) ~> RunCompleted

\* C26 witness: a run over two lanes has returned with both wallets done,
\* one of them by a submission that succeeded.
TwoLaneRunCompleted ==
    /\ RunCompleted
    /\ thread_count = 2 /\ succeeded = {1, 2}
    /\ successes >= 1

\* C31: whenever get_current_block returns a height, also while the polling
\* thread stores a new one, the window information it returns with it is that
\* of the returned height: block_in_tempo is the height modulo tempo.
ReturnedPairIsConsistent ==
    (ret.op = "get_current_block" /\ ret.val[1] # None) =>
        /\ ret.val[2] = _get_window_info(ret.val[1])
        /\ ret.val[2].block_in_tempo = ret.val[1] % tempo

\* C32: the statistics read after a compute_priority_fee call with a positive
\* base cost report as current_multiplier the multiplier that call applied,
\* fee / base_cost, in the cold-start branch and in every tier. Stated for a
\* positive base_multiplier, where get_fee_statistics does not raise.
CurrentMultiplierIsTheOneApplied ==
    [][(/\ ret.op = "compute_priority_fee"
        /\ ret.arg > 0
        /\ base_multiplier > 0
        /\ ret'.op = "get_fee_statistics") =>
           ret'.val.current_multiplier * ret.arg = ret.val]_vars

=============================================================================
